---- MODULE Spec2Model ----
(***************************************************************************)
(* news-summarizer: the pipeline orchestrator (src/src/main.py) and the    *)
(* mail collector (src/src/collectors/email_collector.py) as one           *)
(* sequential state machine.  The program is single-threaded: pc is the    *)
(* place of the one thread of control.  A step is one collaborator call    *)
(* (an imaplib command, the completion call, the SMTP delivery) or one     *)
(* read of the configuration, together with the code that runs up to the   *)
(* next such call.                                                         *)
(*                                                                         *)
(* The configuration document and the answers of the collaborators are     *)
(* inputs: each is drawn from a small set at the place where the code      *)
(* reads it (domain.get(...), mail.fetch(...)).                            *)
(*                                                                         *)
(* Four specifications share the variables: Spec is a whole run,           *)
(* SpecCollect one collect call on a larger mailbox, SpecPure the helper   *)
(* functions called on their own, SpecRuns successive collect calls while  *)
(* the server's mailbox changes in between.                                *)
(***************************************************************************)
EXTENDS Integers, Sequences, FiniteSets, TLC

\* ------------------------------------------------------------------ bounds
MaxDomains == 2
MaxCollectors == 2
MaxMsgs == 2
MaxRunMsgs == 1
MaxLen == 1
MaxTextLen == 5
MaxRepeat == 7
MaxNoise == 2
MaxParts == 3
MaxUids == 3
MaxDays == 2

\* ------------------------------------------------------- values and errors
None == "None"
NoExc == "none"

\* Exception classes the collaborators and the code can raise.  Every one of
\* them derives from Exception; IMAP4.abort counts as IMAP4.error, its base.
ExceptionKinds ==
    {"IMAP4.error", "MessageError", "LookupError", "OSError",
     "AttributeError", "APIError", "APIConnectionError", "RateLimitError",
     "SMTPException"}

\* Python truthiness of a str | None value (if not x).
Truthy(v) == v /= None /\ v /= ""

\* --------------------------------------------------------------- text
Space == " "
Newline == "\n"
Chars == {Space, Newline, "a"}
Whitespace == {Space, Newline}

\* Texts of at most n characters, as tuples of characters.
RECURSIVE TextsUpTo(_)
TextsUpTo(n) ==
    IF n = 0 THEN {<<>>}
    ELSE LET shorter == TextsUpTo(n - 1)
         IN  shorter \cup {Append(t, ch) : t \in {s \in shorter : Len(s) = n - 1}, ch \in Chars}

RawTexts == TextsUpTo(MaxLen)

\* str.lstrip() / str.rstrip() / str.strip() on whitespace.
RECURSIVE LStrip(_)
LStrip(t) == IF t /= <<>> /\ Head(t) \in Whitespace THEN LStrip(Tail(t)) ELSE t

RECURSIVE RStrip(_)
RStrip(t) ==
    IF t /= <<>> /\ t[Len(t)] \in Whitespace THEN RStrip(SubSeq(t, 1, Len(t) - 1)) ELSE t

Strip(t) == RStrip(LStrip(t))

\* Length of the run of character ch that starts text t.
RECURSIVE RunLen(_, _)
RunLen(t, ch) == IF t /= <<>> /\ Head(t) = ch THEN 1 + RunLen(Tail(t), ch) ELSE 0

\* re.sub(ch{min,}, ch * keep, t): every maximal run of at least min
\* characters ch becomes a run of keep.
RECURSIVE CollapseRuns(_, _, _, _)
CollapseRuns(t, ch, min, keep) ==
    IF t = <<>> THEN <<>>
    ELSE LET n == RunLen(t, ch)
         IN  IF n = 0
             THEN <<Head(t)>> \o CollapseRuns(Tail(t), ch, min, keep)
             ELSE [i \in 1..(IF n >= min THEN keep ELSE n) |-> ch]
                  \o CollapseRuns(SubSeq(t, n + 1, Len(t)), ch, min, keep)

\* A substitution that replaces each pair of spaces by one space.
RECURSIVE HalvePairs(_)
HalvePairs(t) ==
    IF t = <<>> THEN <<>>
    ELSE IF Len(t) >= 2 /\ t[1] = Space /\ t[2] = Space
    THEN <<Space>> \o HalvePairs(SubSeq(t, 3, Len(t)))
    ELSE <<Head(t)>> \o HalvePairs(Tail(t))

NormalizePairs(t) == HalvePairs(CollapseRuns(t, Newline, 3, 2))
_normalize_whitespace(t) == CollapseRuns(CollapseRuns(t, Newline, 3, 2), Space, 2, 1)

\* HTMLCleaner.clean after the markup conversion: t is the converter's output.
clean(t) == IF t = <<>> THEN <<>> ELSE Strip(_normalize_whitespace(t))

\* The value None where a string is expected: the tuple that holds None, which
\* is no text because None is no character.  A call that raises gives the
\* exception's class in place of a result.
NoneText == <<None>>
Raised(e) == <<"raise", e>>
IsRaise(result) == Len(result) = 2 /\ result[1] = "raise"

\* HTMLCleaner.clean_simple(text): re.sub raises TypeError when text is None.
clean_simple(t) ==
    IF t = NoneText THEN Raised("TypeError") ELSE Strip(_normalize_whitespace(t))

\* ------------------------------------------------------------- state
VARIABLES
    pc,               \* place of the thread of control
    runStatus,        \* "running", "completed", "no_domains", "exit1", "crashed"
    numDomains,       \* len(domains) of the loaded configuration
    d,                \* index of the domain the loop of run is at
    entered,          \* domains for which _process_domain was entered
    started,          \* run: the domains _process_domain was called for, one
                      \* entry per call
    faulted,          \* domains whose exception reached the domain boundary
    domainOutcome,    \* how the current domain's processing ended
    numCollectors,    \* len(collectors_config) of the current domain
    c,                \* index of the collector the loop of _collect_items is at
    all_items,        \* _collect_items: all_items
    collectDone,      \* _collect_items has returned for the current domain
    processed_content,\* _process_domain: processed_content
    procOutcome,      \* which path of the processing stage was taken
    processCalls,     \* calls of processor.process in the current domain
    sendCalls,        \* calls of sender.send in the current domain
    collector,        \* the EmailCollector built from the current entry
    items,            \* collect: items
    mail,             \* collect: mail is not None
    message_id_list,  \* collect: message_id_list
    k,                \* position of the loop over message_id_list
    exc,              \* the exception in flight, or NoExc
    excOrigin,        \* the call that raised the exception in flight
    imapState,        \* imaplib's session state of the connection
    connOpened,       \* a connection was opened during this collect call
    logoutAttempted,  \* mail.logout() was called during this collect call
    serverSetsSeen,   \* this server marks a message read when its body is fetched
    seen,             \* messages carrying the Seen flag on the server
    flagOps,          \* flag mutations issued: <<msg_id, command>>
    sessionFailure,   \* "connect" (not opened), "login" (rejected), "id"
                      \* (rejected), "select" (non-OK status), else "none"
    msgFailed,        \* identifiers whose processing raised inside the loop
    discarded,        \* identifiers skipped for empty content
    commands,         \* the protocol commands of this collect call, in order
    mailboxSize,      \* number of messages the remote mailbox holds
    mailboxSubjects,  \* the Subject headers the messages of the mailbox carry
    mailboxBodies,    \* the bodies of the mailbox's messages, as the markup
                      \* converter renders them
    completionError,  \* what the try body of process raised, or NoExc
    sendResult,       \* sender.send in the current domain: "none" (not
                      \* called), "True", "False" or "raised"
    raisedAt,         \* indices of the domain's collectors whose collect raised
    unknownAt,        \* indices of the domain's collectors with an unknown type
    returned,         \* the lists the domain's collectors returned, one after
                      \* the other in the order of the calls
    senderCfg,        \* the sender entry _send_report read, "none" before
    senderEnabled,    \* Sender.enabled of that entry: its "enabled" key, True
                      \* when the key is absent
    input,            \* a helper function under call and its argument
    output,           \* what the successive calls of the helper returned
    mbox,             \* the messages of the mailbox in the server's order;
                      \* a message's sequence number is its position
    nextUid,          \* the identity the next delivered message gets
    assigned          \* the source_id every collect call gave to a message

runVars == <<runStatus, numDomains, d, entered, started, faulted>>
domVars == <<domainOutcome, numCollectors, c, all_items, collectDone,
             processed_content, procOutcome, processCalls, sendCalls>>
excVars == <<exc, excOrigin>>
colVars == <<collector, items, mail, message_id_list, k, imapState,
             connOpened, logoutAttempted, serverSetsSeen, seen, flagOps,
             sessionFailure, msgFailed, discarded, commands>>
histVars == <<completionError, sendResult, raisedAt, unknownAt, returned,
              senderCfg,
                   senderEnabled>>
pureVars == <<input, output>>
runsVars == <<mbox, nextUid, assigned>>
envVars == <<mailboxSize, mailboxSubjects, mailboxBodies, pureVars, runsVars>>
coreVars == <<pc, runVars, domVars, histVars, excVars, colVars, mailboxSize,
              mailboxSubjects, mailboxBodies>>
progVars == <<coreVars, runsVars>>
vars == <<pc, runVars, domVars, histVars, excVars, colVars, envVars>>

\* ------------------------------------------------------ configuration
\* One entry of a domain's collectors list.  "malformed" is an entry that is
\* not a mapping, so that config.get raises.
Accounts == {"me@example.org"}
CollectorConfigs ==
    [type : {"email"}, email_account : Accounts, mark_as_seen : BOOLEAN]
    \cup [type : {"rss", "malformed"}, email_account : Accounts, mark_as_seen : {TRUE}]

NoCollector == [type |-> "none", email_account |-> "", mark_as_seen |-> TRUE]

\* domain.get("processor", {}) and domain.get("sender", {}): absent (or empty),
\* a mapping with a type tag, or a value that is not a mapping.
ProcessorConfigs == {"absent", "ai", "other", "malformed"}
SenderConfigs == {"absent", "email", "other", "malformed"}

\* The identifiers a search can return: ascending message sequence numbers.
RECURSIVE Ascending(_)
Ascending(S) ==
    IF S = {} THEN <<>>
    ELSE LET m == CHOOSE x \in S : \A y \in S : x <= y
         IN  <<m>> \o Ascending(S \ {m})

SearchResults(size) == {Ascending(S) : S \in SUBSET (1..size)}

\* The state of a collector before its collect call.
ResetCollect ==
    /\ collector' = NoCollector
    /\ items' = <<>>
    /\ mail' = FALSE
    /\ message_id_list' = <<>>
    /\ k' = 0
    /\ imapState' = "none"
    /\ connOpened' = FALSE
    /\ logoutAttempted' = FALSE
    /\ serverSetsSeen' = FALSE
    /\ seen' = {}
    /\ flagOps' = {}
    /\ sessionFailure' = "none"
    /\ msgFailed' = {}
    /\ discarded' = {}
    /\ commands' = <<>>

\* ------------------------------------------------------------- Init
\* The orchestrator before run is called.
IdleRun ==
    /\ runStatus = "running"
    /\ numDomains = 0
    /\ d = 0
    /\ entered = {}
    /\ started = <<>>
    /\ faulted = {}
    /\ domainOutcome = "none"
    /\ numCollectors = 0
    /\ c = 0
    /\ all_items = <<>>
    /\ collectDone = FALSE
    /\ processed_content = None
    /\ procOutcome = "none"
    /\ processCalls = 0
    /\ sendCalls = 0
    /\ completionError = NoExc
    /\ sendResult = "none"
    /\ raisedAt = {}
    /\ unknownAt = {}
    /\ returned = <<>>
    /\ senderCfg = "none"
    /\ senderEnabled = TRUE
    /\ exc = NoExc
    /\ excOrigin = "none"

\* No collect call in progress.
IdleSession ==
    /\ items = <<>>
    /\ mail = FALSE
    /\ message_id_list = <<>>
    /\ k = 0
    /\ imapState = "none"
    /\ connOpened = FALSE
    /\ logoutAttempted = FALSE
    /\ serverSetsSeen = FALSE
    /\ seen = {}
    /\ flagOps = {}
    /\ sessionFailure = "none"
    /\ msgFailed = {}
    /\ discarded = {}
    /\ commands = <<>>

\* ---------------------------------------------------------- subject header
\* The sentinel title.
NoSubject == <<"N", "o", Space, "S", "u", "b", "j", "e", "c", "t">>

\* The Subject header of a parsed message: none, a value without encoded
\* words (the parser has removed the white space after the colon), or encoded
\* words, which decode to any text.  text is what the parts decode_header
\* returns decode and concatenate to.
MissingSubject == [present |-> FALSE, encoded |-> FALSE, text |-> <<>>]
PlainSubject(t) == [present |-> TRUE, encoded |-> FALSE, text |-> t]
EncodedSubject(t) == [present |-> TRUE, encoded |-> TRUE, text |-> t]
SubjectHeaders ==
    {MissingSubject}
    \cup {PlainSubject(t) : t \in {u \in RawTexts : LStrip(u) = u}}
    \cup {EncodedSubject(t) : t \in RawTexts}

\* msg.get("Subject", "No Subject").
GetSubject(h) == IF h.present THEN h ELSE PlainSubject(NoSubject)

\* _decode_header(header_value): the header value is the empty string only
\* when it has no encoded word and no text.
_decode_header(h) ==
    IF ~h.encoded /\ h.text = <<>> THEN NoSubject ELSE Strip(h.text)

\* No helper function is under call.
NoInput == [fn |-> "none", arg |-> <<>>]
NoCall ==
    /\ input = NoInput
    /\ output = <<>>

\* The mailbox before any message was delivered to it.
EmptyMailbox ==
    /\ mbox = <<>>
    /\ nextUid = 1
    /\ assigned = {}

Init ==
    /\ pc = "run"
    /\ IdleRun
    /\ collector = NoCollector
    /\ IdleSession
    /\ mailboxSize = MaxRunMsgs
    /\ mailboxSubjects = {PlainSubject(<<"a">>)}
    /\ mailboxBodies = {<<"a">>, <<Space>>}
    /\ NoCall
    /\ EmptyMailbox

\* ------------------------------------------------------ exception handlers
\* Each handler as the set of exception classes its except clause names.
ProcessDomainCatchesNarrow(e) == e \in {"IMAP4.error", "OSError"}
ProcessDomainCatchesNone(e) == FALSE
ProcessDomainCatches(e) == e \in ExceptionKinds          \* except Exception
CollectItemsCatchesIMAPOnly(e) == e = "IMAP4.error"
CollectItemsCatches(e) == e \in ExceptionKinds           \* except Exception
ProcessItemsCatches(e) == e \in ExceptionKinds           \* except Exception
SendReportCatches(e) == e \in ExceptionKinds             \* except Exception
\* The classes the completion call raises: openai.APIError and its subclasses
\* for a transport failure and for a rate limit.
APIFailures == {"APIError", "APIConnectionError", "RateLimitError"}
AIProcessorCatchesRateLimitOnly(e) == e = "RateLimitError"
AIProcessorCatches(e) == e \in APIFailures
EmailSenderCatches(e) == e = "SMTPException"

\* What stops the SMTP exchange of send, and the class smtplib raises for it:
\* the socket and ssl errors of connecting and of the TLS handshake are OSError,
\* the server's refusals are subclasses of SMTPException.
TransportFailures == {"connection refused", "TLS failure", "login rejected",
                      "recipient rejected"}
TransportRaises(failure) ==
    IF failure \in {"connection refused", "TLS failure"}
    THEN "OSError" ELSE "SMTPException"
CollectLoopCatches(e) == e \in {"IMAP4.error", "MessageError"}
CollectCatches(e) == e = "IMAP4.error"
CloseCatches(e) == e = "IMAP4.error"

\* ------------------------------------------------------ NewsSummarizer.run
\* The guards of _process_domain.
NoItemsNever(its) == FALSE
NoItems(its) == its = <<>>                 \* if not items
NoContentNever(content) == FALSE
NoContent(content) == ~Truthy(content)     \* if not processed_content

\* The texts AIProcessor.process returns besides the completion's own.
EmptyInputNotice == "no news today"
FallbackNotice == "summary generation failed"
FailureNotice == "AI processing failed: <error>"

\* The factories: an instance for the one type tag each of them knows, None
\* (after a warning) for any other.
CollectorTypes == {"email"}
CreateAnyCollector(type) == "instance"
_create_collector(type) == IF type \in CollectorTypes THEN "instance" ELSE None
_create_processor(type) == IF type = "ai" THEN "instance" ELSE None
_create_sender(type) == IF type = "email" THEN "instance" ELSE None

\* _process_domain returns to the loop of run: the next domain, or the end.
EndDomain(outcome) ==
    /\ domainOutcome' = outcome
    /\ IF d < numDomains
       THEN /\ d' = d + 1
            /\ pc' = "process_domain"
            /\ runStatus' = runStatus
       ELSE /\ d' = d
            /\ pc' = "done"
            /\ runStatus' = "completed"

\* An exception leaves the try block's body of _process_domain.
RaiseToDomain(e, origin) ==
    /\ exc' = e
    /\ excOrigin' = origin
    /\ pc' = "domain_except"

\* A loop of _collect_items that returns from inside its body.
NextCollectorReturnsEarly ==
    /\ c' = c
    /\ collectDone' = TRUE
    /\ pc' = "check_items"

\* The loop of _collect_items moves to its next entry, or ends.
NextCollector ==
    IF c < numCollectors
    THEN /\ c' = c + 1
         /\ collectDone' = FALSE
         /\ pc' = "create_collector"
    ELSE /\ c' = c
         /\ collectDone' = TRUE
         /\ pc' = "check_items"

\* The exit status of the process for each way run ends: sys.exit(1), an
\* uncaught exception (the interpreter exits with 1), or a normal return.
ExitStatus(status) == IF status \in {"exit1", "crashed"} THEN 1 ELSE 0

\* run that logs the missing file and goes on with one default domain.
LoadConfigMissingGoesOn ==
    /\ UNCHANGED <<envVars, histVars>>
    /\ pc = "run"
    /\ runStatus' = "exit1"
    /\ numDomains' = 1
    /\ d' = 1
    /\ pc' = "process_domain"
    /\ UNCHANGED <<entered, started, faulted, domVars, excVars, colVars>>

\* run: the configuration file does not exist; sys.exit(1).
LoadConfigMissing ==
    /\ UNCHANGED <<envVars, histVars>>
    /\ pc = "run"
    /\ runStatus' = "exit1"
    /\ pc' = "done"
    /\ UNCHANGED <<numDomains, d, entered, started, faulted, domVars, excVars, colVars>>

\* run: the configuration is loaded; no domains ends the run.
LoadConfig ==
    /\ UNCHANGED <<envVars, histVars>>
    /\ pc = "run"
    /\ \E n \in 0..MaxDomains :
         /\ numDomains' = n
         /\ IF n = 0
            THEN /\ runStatus' = "no_domains"
                 /\ pc' = "done"
                 /\ d' = 0
            ELSE /\ runStatus' = runStatus
                 /\ pc' = "process_domain"
                 /\ d' = 1
    /\ UNCHANGED <<entered, started, faulted, domVars, excVars, colVars>>

\* _process_domain is entered and _collect_items reads the collectors list.
ProcessDomain ==
    /\ UNCHANGED envVars
    /\ completionError' = NoExc
    /\ sendResult' = "none"
    /\ raisedAt' = {}
    /\ unknownAt' = {}
    /\ returned' = <<>>
    /\ senderCfg' = "none"
    /\ senderEnabled' = TRUE
    /\ pc = "process_domain"
    /\ entered' = entered \cup {d}
    /\ started' = Append(started, d)
    /\ domainOutcome' = "none"
    /\ all_items' = <<>>
    /\ processed_content' = None
    /\ procOutcome' = "none"
    /\ processCalls' = 0
    /\ sendCalls' = 0
    /\ \E n \in 0..MaxCollectors :
         /\ numCollectors' = n
         /\ IF n = 0
            THEN /\ c' = 0
                 /\ collectDone' = TRUE
                 /\ pc' = "check_items"
            ELSE /\ c' = 1
                 /\ collectDone' = FALSE
                 /\ pc' = "create_collector"
    /\ ResetCollect
    /\ UNCHANGED <<runStatus, numDomains, d, faulted, excVars>>

\* _collect_items: _create_collector on the entry the loop is at.
CreateCollector ==
    /\ UNCHANGED <<envVars, completionError, sendResult, raisedAt, returned,
                   senderCfg,
                   senderEnabled>>
    /\ pc = "create_collector"
    /\ \E cfg \in CollectorConfigs :
         IF cfg.type = "malformed"
         THEN /\ RaiseToDomain("AttributeError", "config")
              /\ UNCHANGED <<c, collectDone, collector, unknownAt>>
         ELSE /\ unknownAt' = (IF cfg.type \in CollectorTypes
                               THEN unknownAt ELSE unknownAt \cup {c})
              /\ IF _create_collector(cfg.type) /= None
                 THEN /\ collector' = cfg
                      /\ pc' = "connect"
                      /\ UNCHANGED <<c, collectDone, excVars>>
                 ELSE /\ NextCollector
                      /\ UNCHANGED <<collector, excVars>>
    /\ UNCHANGED <<runVars, domainOutcome, numCollectors, all_items,
                   processed_content, procOutcome, processCalls, sendCalls,
                   items, mail, message_id_list, k, imapState, connOpened,
                   logoutAttempted, serverSetsSeen, seen, flagOps,
                   sessionFailure, msgFailed, discarded, commands>>

\* _collect_items: collector.collect() has returned or raised.
CollectReturn ==
    /\ UNCHANGED <<envVars, completionError, sendResult, unknownAt, senderCfg,
                   senderEnabled>>
    /\ pc = "collect_exit"
    /\ returned' = (IF exc = NoExc THEN returned \o items ELSE returned)
    /\ raisedAt' = (IF exc = NoExc THEN raisedAt ELSE raisedAt \cup {c})
    /\ IF exc = NoExc
       THEN /\ all_items' = all_items \o items
            /\ NextCollector
            /\ ResetCollect
            /\ UNCHANGED excVars
       ELSE IF CollectItemsCatches(exc)
       THEN /\ all_items' = all_items
            /\ NextCollector
            /\ ResetCollect
            /\ exc' = NoExc
            /\ excOrigin' = "none"
       ELSE /\ pc' = "domain_except"
            /\ UNCHANGED <<all_items, c, collectDone, excVars, colVars>>
    /\ UNCHANGED <<runVars, domainOutcome, numCollectors, processed_content,
                   procOutcome, processCalls, sendCalls>>

\* _process_domain: if not items.
CheckItems ==
    /\ UNCHANGED <<envVars, histVars>>
    /\ pc = "check_items"
    /\ IF NoItems(all_items)
       THEN EndDomain("no_items")
       ELSE /\ pc' = "process_items"
            /\ UNCHANGED <<domainOutcome, d, runStatus>>
    /\ UNCHANGED <<numDomains, entered, started, faulted, numCollectors, c,
                   all_items,
                   collectDone, processed_content, procOutcome, processCalls,
                   sendCalls, excVars, colVars>>

\* _process_items up to the call of processor.process.
ProcessItems ==
    /\ UNCHANGED <<envVars, histVars>>
    /\ pc = "process_items"
    /\ \E cfg \in ProcessorConfigs :
         CASE cfg = "absent" ->
                /\ procOutcome' = "no_config"
                /\ pc' = "check_content"
                /\ UNCHANGED excVars
           [] cfg = "malformed" ->
                /\ procOutcome' = "raised"
                /\ RaiseToDomain("AttributeError", "config")
           [] _create_processor(cfg) = None ->
                /\ procOutcome' = "unknown_type"
                /\ pc' = "check_content"
                /\ UNCHANGED excVars
           [] OTHER ->
                /\ procOutcome' = procOutcome
                /\ pc' = "process"
                /\ UNCHANGED excVars
    /\ processed_content' = None
    /\ UNCHANGED <<runVars, domainOutcome, numCollectors, c, all_items,
                   collectDone, processCalls, sendCalls, colVars>>

\* processor.process(items), AIProcessor's, inside the try of _process_items.
Process ==
    /\ UNCHANGED <<envVars, sendResult, raisedAt, unknownAt, returned, senderCfg,
                   senderEnabled>>
    /\ pc = "process"
    /\ processCalls' = processCalls + 1
    /\ IF all_items = <<>>
       THEN /\ processed_content' = EmptyInputNotice
            /\ procOutcome' = "content"
            /\ pc' = "check_content"
            /\ UNCHANGED <<excVars, completionError>>
       ELSE \/ \E summary \in {"report", "", None} :
                 /\ processed_content' = (IF Truthy(summary) THEN summary ELSE FallbackNotice)
                 /\ procOutcome' = "content"
                 /\ pc' = "check_content"
                 /\ UNCHANGED <<excVars, completionError>>
            \/ \E e \in APIFailures \cup {"LookupError", "OSError"} :
                 /\ completionError' = e
                 /\ IF AIProcessorCatches(e)
                    THEN /\ processed_content' = FailureNotice
                         /\ procOutcome' = "failure_notice"
                         /\ pc' = "check_content"
                         /\ UNCHANGED excVars
                    ELSE IF ProcessItemsCatches(e)
                    THEN /\ processed_content' = None
                         /\ procOutcome' = "raised"
                         /\ pc' = "check_content"
                         /\ UNCHANGED excVars
                    ELSE /\ processed_content' = processed_content
                         /\ procOutcome' = "raised"
                         /\ RaiseToDomain(e, "process")
    /\ UNCHANGED <<runVars, domainOutcome, numCollectors, c, all_items,
                   collectDone, sendCalls, colVars>>

\* _process_domain: if not processed_content.
CheckContent ==
    /\ UNCHANGED <<envVars, histVars>>
    /\ pc = "check_content"
    /\ IF NoContent(processed_content)
       THEN EndDomain("no_content")
       ELSE /\ pc' = "send_report"
            /\ UNCHANGED <<domainOutcome, d, runStatus>>
    /\ UNCHANGED <<numDomains, entered, started, faulted, numCollectors, c,
                   all_items,
                   collectDone, processed_content, procOutcome, processCalls,
                   sendCalls, excVars, colVars>>

\* Sender.enabled: config.get("enabled", True), for each value the entry of
\* a sender configuration can carry under that key.
enabled(config) ==
    IF config \in {"absent", "malformed"} THEN {TRUE} ELSE BOOLEAN

\* _send_report up to the call of sender.send.
SendReport ==
    /\ UNCHANGED <<envVars, completionError, sendResult, raisedAt, unknownAt,
                   returned>>
    /\ pc = "send_report"
    /\ \E cfg \in SenderConfigs :
         /\ senderCfg' = cfg
         /\ senderEnabled' \in enabled(cfg)
         /\ CASE cfg = "malformed" ->
                /\ RaiseToDomain("AttributeError", "config")
                /\ UNCHANGED <<domainOutcome, d, runStatus>>
           [] cfg /= "absent" /\ _create_sender(cfg) /= None ->
                /\ pc' = "send"
                /\ UNCHANGED <<domainOutcome, d, runStatus, excVars>>
           [] OTHER ->
                /\ EndDomain("not_delivered")
                /\ UNCHANGED excVars
    /\ UNCHANGED <<numDomains, entered, started, faulted, numCollectors, c,
                   all_items,
                   collectDone, processed_content, procOutcome, processCalls,
                   sendCalls, colVars>>

\* sender.send(content, subject), EmailSender's, inside the try of _send_report.
Send ==
    /\ UNCHANGED <<envVars, completionError, raisedAt, unknownAt, returned,
                   senderCfg,
                   senderEnabled>>
    /\ pc = "send"
    /\ sendCalls' = sendCalls + 1
    /\ \/ /\ sendResult' = "True"
          /\ EndDomain("delivered")
          /\ UNCHANGED excVars
       \/ \E failure \in TransportFailures :
            LET e == TransportRaises(failure)
            IN  IF EmailSenderCatches(e)
                THEN /\ sendResult' = "False"
                     /\ EndDomain("not_delivered")
                     /\ UNCHANGED excVars
                ELSE /\ sendResult' = "raised"
                     /\ IF SendReportCatches(e)
                        THEN /\ EndDomain("not_delivered")
                             /\ UNCHANGED excVars
                        ELSE /\ RaiseToDomain(e, "send")
                             /\ UNCHANGED <<domainOutcome, d, runStatus>>
    /\ UNCHANGED <<numDomains, entered, started, faulted, numCollectors, c,
                   all_items,
                   collectDone, processed_content, procOutcome, processCalls,
                   colVars>>

\* _process_domain: the except clause at the domain boundary.
DomainExcept ==
    /\ UNCHANGED <<envVars, histVars>>
    /\ pc = "domain_except"
    /\ IF ProcessDomainCatches(exc)
       THEN /\ faulted' = faulted \cup {d}
            /\ exc' = NoExc
            /\ excOrigin' = "none"
            /\ EndDomain("error")
       ELSE /\ runStatus' = "crashed"
            /\ pc' = "done"
            /\ UNCHANGED <<faulted, excVars, domainOutcome, d>>
    /\ UNCHANGED <<numDomains, entered, started, numCollectors, c, all_items,
                   collectDone,
                   processed_content, procOutcome, processCalls, sendCalls,
                   colVars>>

\* ------------------------------------------------- EmailCollector.collect
\* The finally clause of collect: if mail.
FinallyPc == IF mail THEN "close" ELSE "collect_exit"

\* The loop over message_id_list at position j: its body, or the loop's end.
LoopPc(ids, j) == IF j > Len(ids) THEN FinallyPc ELSE "fetch"

\* An exception leaves the body of the outer try of collect.
RaiseInTry(e, origin) ==
    /\ IF CollectCatches(e)
       THEN /\ exc' = NoExc
            /\ excOrigin' = "none"
       ELSE /\ exc' = e
            /\ excOrigin' = origin
    /\ pc' = FinallyPc

\* An exception leaves the body of the try inside the loop.
RaiseInLoop(e, origin) ==
    /\ msgFailed' = msgFailed \cup {message_id_list[k]}
    /\ IF CollectLoopCatches(e)
       THEN /\ k' = k + 1
            /\ pc' = LoopPc(message_id_list, k + 1)
            /\ UNCHANGED excVars
       ELSE /\ k' = k
            /\ RaiseInTry(e, origin)

\* An exception leaves the body of the try inside the finally clause.
RaiseInFinally(e, origin) ==
    /\ IF CloseCatches(e)
       THEN UNCHANGED excVars
       ELSE /\ exc' = e
            /\ excOrigin' = origin
    /\ pc' = "collect_exit"

\* _process_email: if not content.strip().
EmptyContentNever(content) == FALSE
EmptyContent(content) == Strip(content) = <<>>

\* collect: the flag mutation after an item is appended.
StoreIssued(mark_as_seen) == ~mark_as_seen
StoreCommand == "+FLAGS"

\* The server's answer to STORE <command> \Seen on message id.
ApplyStore(flags, id, command) ==
    IF command = "+FLAGS" THEN flags \cup {id} ELSE flags \ {id}

\* _process_email: the source_id of the item of message id.
SourceId(account, id) == <<account, id>>

\* A command is given to imaplib: its name, its argument, and how it ended:
\* "OK", "NO" (a status other than OK), "raised", or "refused" when imaplib
\* rejects it for the session's state without sending it.
Issue(cmd, arg, status) ==
    commands' = Append(commands, [cmd |-> cmd, arg |-> arg, status |-> status])

\* collect: if status != "OK" after select.
SelectFailedNever(status) == FALSE
SelectFailed(status) == status /= "OK"

\* _connect: imaplib.IMAP4_SSL(server, port).
Connect ==
    /\ UNCHANGED <<envVars, histVars>>
    /\ pc = "connect"
    /\ \/ /\ connOpened' = TRUE
          /\ imapState' = "NONAUTH"
          /\ serverSetsSeen' \in BOOLEAN
          /\ pc' = "login"
          /\ UNCHANGED <<sessionFailure, excVars>>
       \/ \E e \in {"OSError", "IMAP4.error"} :
            /\ sessionFailure' = "connect"
            /\ RaiseInTry(e, "connect")
            /\ UNCHANGED <<connOpened, imapState, serverSetsSeen>>
    /\ UNCHANGED commands
    /\ UNCHANGED <<runVars, domVars, collector, items, mail, message_id_list, k,
                   logoutAttempted, seen, flagOps, msgFailed, discarded>>

\* _connect: mail.login(account, password).
Login ==
    /\ UNCHANGED <<envVars, histVars>>
    /\ pc = "login"
    /\ \/ /\ imapState' = "AUTH"
          /\ pc' = "id"
          /\ UNCHANGED <<sessionFailure, excVars>>
          /\ Issue("login", collector.email_account, "OK")
       \/ \E e \in {"IMAP4.error", "OSError"} :
            /\ sessionFailure' = (IF e = "IMAP4.error" THEN "login" ELSE sessionFailure)
            /\ RaiseInTry(e, "login")
            /\ Issue("login", collector.email_account, "raised")
            /\ UNCHANGED imapState
    /\ UNCHANGED <<runVars, domVars, collector, items, mail, message_id_list, k,
                   connOpened, logoutAttempted, serverSetsSeen, seen, flagOps,
                   msgFailed, discarded>>

\* _connect: the ID command; on success collect's mail is assigned.
Id ==
    /\ UNCHANGED <<envVars, histVars>>
    /\ pc = "id"
    /\ \/ /\ mail' = TRUE
          /\ pc' = "select"
          /\ UNCHANGED <<sessionFailure, excVars>>
          /\ Issue("id", None, "OK")
       \/ \E e \in {"IMAP4.error", "OSError"} :
            /\ sessionFailure' = (IF e = "IMAP4.error" THEN "id" ELSE sessionFailure)
            /\ RaiseInTry(e, "id")
            /\ Issue("id", None, "raised")
            /\ UNCHANGED mail
    /\ UNCHANGED <<runVars, domVars, collector, items, message_id_list, k,
                   imapState, connOpened, logoutAttempted, serverSetsSeen, seen,
                   flagOps, msgFailed, discarded>>

\* collect: mail.select(mailbox) and the test of its status.
Select ==
    /\ UNCHANGED <<envVars, histVars>>
    /\ pc = "select"
    /\ \/ \E status \in {"OK", "NO"} :
            /\ Issue("select", "INBOX", status)
            /\ imapState' = (IF status = "OK" THEN "SELECTED" ELSE "AUTH")
            /\ IF SelectFailed(status)
               THEN /\ sessionFailure' = "select"
                    /\ pc' = FinallyPc
               ELSE /\ pc' = "search"
                    /\ UNCHANGED sessionFailure
            /\ UNCHANGED excVars
       \/ \E e \in {"IMAP4.error", "OSError"} :
            /\ Issue("select", "INBOX", "raised")
            /\ RaiseInTry(e, "select")
            /\ UNCHANGED <<imapState, sessionFailure>>
    /\ UNCHANGED <<runVars, domVars, collector, items, mail, message_id_list, k,
                   connOpened, logoutAttempted, serverSetsSeen, seen, flagOps,
                   msgFailed, discarded>>

\* collect: mail.search(None, criteria); the loop starts.
Search ==
    /\ UNCHANGED <<envVars, histVars>>
    /\ pc = "search"
    /\ \/ \E ids \in SearchResults(mailboxSize) :
            /\ message_id_list' = ids
            /\ k' = 1
            /\ pc' = LoopPc(ids, 1)
            /\ Issue("search", ids, "OK")
            /\ UNCHANGED excVars
       \/ \E e \in {"IMAP4.error", "OSError"} :
            /\ RaiseInTry(e, "search")
            /\ Issue("search", <<>>, "raised")
            /\ UNCHANGED <<message_id_list, k>>
    /\ UNCHANGED <<runVars, domVars, collector, items, mail, imapState,
                   connOpened, logoutAttempted, serverSetsSeen, seen, flagOps,
                   sessionFailure, msgFailed, discarded>>

\* _process_email: mail.fetch(msg_id, "(RFC822)") and the test of its data.
Fetch ==
    /\ UNCHANGED <<envVars, histVars>>
    /\ pc = "fetch"
    /\ \/ /\ seen' = (IF serverSetsSeen THEN seen \cup {message_id_list[k]} ELSE seen)
          /\ pc' = "parse"
          /\ UNCHANGED <<k, msgFailed, excVars>>
          /\ Issue("fetch", message_id_list[k], "OK")
       \/ /\ k' = k + 1
          /\ pc' = LoopPc(message_id_list, k + 1)
          /\ UNCHANGED <<seen, msgFailed, excVars>>
          /\ Issue("fetch", message_id_list[k], "OK")
       \/ \E e \in {"IMAP4.error", "OSError"} :
            /\ RaiseInLoop(e, "fetch")
            /\ Issue("fetch", message_id_list[k], "raised")
            /\ UNCHANGED seen
    /\ UNCHANGED <<runVars, domVars, collector, items, mail, message_id_list,
                   imapState, connOpened, logoutAttempted, serverSetsSeen,
                   flagOps, sessionFailure, discarded>>

\* collect: items.append(item).
PrependItem(its, item) == <<item>> \o its
AppendItem(its, item) == Append(its, item)

\* _process_email after the fetch: parse, decode, extract, build the item;
\* collect appends it.
Parse ==
    /\ UNCHANGED <<envVars, histVars>>
    /\ pc = "parse"
    /\ \/ \E e \in {"MessageError", "LookupError", "AttributeError"} :
            /\ RaiseInLoop(e, "parse")
            /\ UNCHANGED <<items, discarded>>
       \/ \E t \in mailboxBodies, h \in mailboxSubjects :
            LET subject == _decode_header(GetSubject(h))
                content == clean(t)
                id == message_id_list[k]
            IN  IF EmptyContent(content)
                THEN /\ discarded' = discarded \cup {id}
                     /\ k' = k + 1
                     /\ pc' = LoopPc(message_id_list, k + 1)
                     /\ UNCHANGED <<items, msgFailed, excVars>>
                ELSE /\ items' = AppendItem(items,
                                   [source_id |-> SourceId(collector.email_account, id),
                                    title |-> subject,
                                    content |-> content])
                     /\ IF StoreIssued(collector.mark_as_seen)
                        THEN /\ pc' = "store"
                             /\ k' = k
                        ELSE /\ k' = k + 1
                             /\ pc' = LoopPc(message_id_list, k + 1)
                     /\ UNCHANGED <<discarded, msgFailed, excVars>>
    /\ UNCHANGED commands
    /\ UNCHANGED <<runVars, domVars, collector, mail, message_id_list, imapState,
                   connOpened, logoutAttempted, serverSetsSeen, seen, flagOps,
                   sessionFailure>>

\* collect: mail.store(msg_id, command, "\\Seen").
Store ==
    /\ UNCHANGED <<envVars, histVars>>
    /\ pc = "store"
    /\ flagOps' = flagOps \cup {<<message_id_list[k], StoreCommand>>}
    /\ \/ /\ seen' = ApplyStore(seen, message_id_list[k], StoreCommand)
          /\ k' = k + 1
          /\ pc' = LoopPc(message_id_list, k + 1)
          /\ UNCHANGED <<msgFailed, excVars>>
          /\ Issue("store", message_id_list[k], "OK")
       \/ \E e \in {"IMAP4.error", "OSError"} :
            /\ RaiseInLoop(e, "store")
            /\ Issue("store", message_id_list[k], "raised")
            /\ UNCHANGED seen
    /\ UNCHANGED <<runVars, domVars, collector, items, mail, message_id_list,
                   imapState, connOpened, logoutAttempted, serverSetsSeen,
                   sessionFailure, discarded>>

\* collect, finally: mail.close().  imaplib refuses CLOSE outside SELECTED.
Close ==
    /\ UNCHANGED <<envVars, histVars>>
    /\ pc = "close"
    /\ imapState' = "AUTH"
    /\ \/ /\ imapState = "SELECTED"
          /\ pc' = "logout"
          /\ UNCHANGED excVars
          /\ Issue("close", None, "OK")
       \/ \E e \in {"IMAP4.error", "OSError"} :
            /\ imapState = "SELECTED" \/ e = "IMAP4.error"
            /\ RaiseInFinally(e, "close")
            /\ Issue("close", None,
                     IF imapState = "SELECTED" THEN "raised" ELSE "refused")
    /\ UNCHANGED <<runVars, domVars, collector, items, mail, message_id_list, k,
                   connOpened, logoutAttempted, serverSetsSeen, seen, flagOps,
                   sessionFailure, msgFailed, discarded>>

\* collect, finally: mail.logout().
Logout ==
    /\ UNCHANGED <<envVars, histVars>>
    /\ pc = "logout"
    /\ logoutAttempted' = TRUE
    /\ imapState' = "LOGOUT"
    /\ \/ /\ pc' = "collect_exit"
          /\ UNCHANGED excVars
          /\ Issue("logout", None, "OK")
       \/ \E e \in {"IMAP4.error", "OSError"} :
            /\ RaiseInFinally(e, "logout")
            /\ Issue("logout", None, "raised")
    /\ UNCHANGED <<runVars, domVars, collector, items, mail, message_id_list, k,
                   connOpened, serverSetsSeen, seen, flagOps, sessionFailure,
                   msgFailed, discarded>>

\* ------------------------------------------------------------ specification
Next ==
    \/ LoadConfigMissing
    \/ LoadConfig
    \/ ProcessDomain
    \/ CreateCollector
    \/ Connect
    \/ Login
    \/ Id
    \/ Select
    \/ Search
    \/ Fetch
    \/ Parse
    \/ Store
    \/ Close
    \/ Logout
    \/ CollectReturn
    \/ CheckItems
    \/ ProcessItems
    \/ Process
    \/ CheckContent
    \/ SendReport
    \/ Send
    \/ DomainExcept

Spec == Init /\ [][Next]_vars

\* The whole run against mailboxes that hold one message with a body.
InitFair ==
    /\ pc = "run"
    /\ IdleRun
    /\ collector = NoCollector
    /\ IdleSession
    /\ mailboxSize = 1
    /\ mailboxSubjects = {PlainSubject(<<"a">>)}
    /\ mailboxBodies = {<<"a">>}
    /\ NoCall
    /\ EmptyMailbox

\* The run with its single thread of control never suspended: every call of
\* a collaborator returns or raises, so the statement the thread is at is
\* eventually executed.
SpecFair == InitFair /\ [][Next]_vars /\ WF_vars(Next)

\* One collect call of a freshly built EmailCollector, on a mailbox of up to
\* MaxMsgs messages: the caller is any user of the public operation.
InitCollect ==
    /\ pc = "connect"
    /\ IdleRun
    /\ collector \in {cfg \in CollectorConfigs : cfg.type = "email"}
    /\ IdleSession
    /\ mailboxSize = MaxMsgs
    /\ mailboxSubjects = SubjectHeaders
    /\ mailboxBodies = RawTexts
    /\ NoCall
    /\ EmptyMailbox

NextCollect ==
    \/ Connect
    \/ Login
    \/ Id
    \/ Select
    \/ Search
    \/ Fetch
    \/ Parse
    \/ Store
    \/ Close
    \/ Logout

SpecCollect == InitCollect /\ [][NextCollect]_vars

\* ------------------------------------------------------- link extraction
\* A text with links is a string over letters, "/", white space and Scheme,
\* which stands for the characters "http://" (or "https://") in a row.
Scheme == "http://"

\* [-\w.] and the first character of %XX: what may follow the scheme.  The
\* "h" that starts another scheme is a word character.
HostStart(ch) == ch \in {"a", "b", Scheme}

\* Length of the run of non-white-space characters that starts text t.
RECURSIVE NonSpaceLen(_)
NonSpaceLen(t) ==
    IF t = <<>> \/ Head(t) \in Whitespace THEN 0 ELSE 1 + NonSpaceLen(Tail(t))

\* url_pattern.findall(content): the matches from left to right.  A match
\* starts at a scheme followed by a host character and, [^\s]* being greedy,
\* runs up to the next white space; the search goes on behind it.
RECURSIVE findall(_)
findall(t) ==
    IF t = <<>> THEN <<>>
    ELSE IF Head(t) = Scheme /\ Len(t) >= 2 /\ HostStart(t[2])
    THEN LET n == NonSpaceLen(t)
         IN  <<SubSeq(t, 1, n)>> \o findall(SubSeq(t, n + 1, Len(t)))
    ELSE findall(Tail(t))

Range(f) == {f[i] : i \in DOMAIN f}
Min(a, b) == IF a <= b THEN a ELSE b

\* The slice [:5].
MaxUrls == 5

\* The lists list(matches)[:5] gives without the set(...) around the matches.
ExtractUrlsNoSet(content) ==
    {SubSeq(findall(content), 1, Min(Len(findall(content)), MaxUrls))}

\* _extract_urls(content): list(set(matches))[:5].  The order in which a set
\* of strings is listed is not fixed (str hashes are salted per process), so
\* this is the set of the lists the call can return.
_extract_urls(content) ==
    LET found == Range(findall(content))
        m == Min(Cardinality(found), MaxUrls)
    IN  {r \in [1..m -> found] : \A i, j \in 1..m : r[i] = r[j] => i = j}

\* Words of a text: links, and words that hold no link, a link behind other
\* characters, or a scheme without a host before a link.
UrlTokens == << <<Scheme, "a">>, <<Scheme, "b">>, <<Scheme, "a", "/", "b">>,
                <<Scheme, "b", "/">>, <<Scheme, Scheme, "a">>,
                <<Scheme, "a", "a">> >>
NoiseTokens == { <<"a">>, <<Scheme, "/", "a">>, <<"b", Scheme, "a">>,
                 <<Scheme, "/", Scheme, "b">>, <<Scheme>> }

\* The words joined by single spaces.
RECURSIVE Join(_)
Join(words) ==
    IF words = <<>> THEN <<>>
    ELSE IF Len(words) = 1 THEN words[1]
    ELSE words[1] \o <<Space>> \o Join(Tail(words))

\* counts[i] copies of the i-th link, for each i in turn, as words.
RECURSIVE Repeated(_, _)
Repeated(counts, i) ==
    IF i > Len(UrlTokens) THEN <<>>
    ELSE [n \in 1..counts[i] |-> UrlTokens[i]] \o Repeated(counts, i + 1)

RECURSIVE WordsUpTo(_)
WordsUpTo(n) ==
    IF n = 0 THEN {<<>>}
    ELSE WordsUpTo(n - 1) \cup
         {Append(w, x) : w \in {v \in WordsUpTo(n - 1) : Len(v) = n - 1},
                         x \in NoiseTokens}

\* Texts with any of the links once and one link up to MaxRepeat more times,
\* and texts of words that are not plain links.
UrlTexts ==
    {Join(Repeated(counts, 1) \o [n \in 1..extra |-> UrlTokens[i]]) :
        counts \in [1..Len(UrlTokens) -> 0..1],
        i \in 1..Len(UrlTokens),
        extra \in 0..MaxRepeat}
    \cup {Join(w) : w \in WordsUpTo(MaxNoise)}

\* ------------------------------------------------------- body extraction
\* A part of a message as walk() yields it: its content type and its decoded
\* payload, the empty string when it has none.  Payloads are single words
\* without markup.
PlainPart(payload) == [type |-> "text/plain", payload |-> payload]
HtmlPart(payload) == [type |-> "text/html", payload |-> payload]
Parts ==
    {PlainPart(<<>>), PlainPart(<<"p">>), HtmlPart(<<>>), HtmlPart(<<"h">>),
     [type |-> "image/png", payload |-> <<"x">>]}

RECURSIVE PartsUpTo(_)
PartsUpTo(n) ==
    IF n = 0 THEN {<<>>}
    ELSE PartsUpTo(n - 1) \cup
         {Append(ps, x) : ps \in {q \in PartsUpTo(n - 1) : Len(q) = n - 1},
                          x \in Parts}

\* msg.is_multipart() and the parts below the container in walk() order; a
\* message that is not multi-part is its own single part.
Messages ==
    [multipart : {TRUE}, parts : PartsUpTo(MaxParts)]
    \cup [multipart : {FALSE}, parts : {<<x>> : x \in Parts}]

\* self._converter.handle on a word without markup: the word as a paragraph.
handle(t) == t \o <<Newline, Newline>>

\* cleaner.clean(payload.decode(charset, errors="ignore")).
CleanPayload(payload) == IF payload = <<>> THEN <<>> ELSE clean(handle(payload))

\* HTMLCleaner.clean(html_content) on a word without markup, the empty
\* string or None: if not html_content, else convert, normalize, strip.
CleanMarkup(html_content) ==
    IF html_content = <<>> \/ html_content = NoneText THEN <<>>
    ELSE clean(handle(html_content))

\* The loop over msg.walk() that returns at the first part of either text
\* type, whether or not it has a payload.
RECURSIVE WalkAnyPayload(_)
WalkAnyPayload(parts) ==
    IF parts = <<>> THEN <<>>
    ELSE IF Head(parts).type \in {"text/plain", "text/html"}
    THEN CleanPayload(Head(parts).payload)
    ELSE WalkAnyPayload(Tail(parts))

ExtractContentAnyPayload(msg) ==
    IF msg.multipart THEN WalkAnyPayload(msg.parts)
    ELSE CleanPayload(msg.parts[1].payload)

\* The loop over msg.walk(): the first part that is text/plain with a payload
\* or text/html with a payload ends it.
RECURSIVE Walk(_)
Walk(parts) ==
    IF parts = <<>> THEN <<>>
    ELSE IF Head(parts).type = "text/plain" /\ Head(parts).payload /= <<>>
    THEN CleanPayload(Head(parts).payload)
    ELSE IF Head(parts).type = "text/html" /\ Head(parts).payload /= <<>>
    THEN CleanPayload(Head(parts).payload)
    ELSE Walk(Tail(parts))

_extract_content(msg) ==
    IF msg.multipart THEN Walk(msg.parts)
    ELSE CleanPayload(msg.parts[1].payload)

\* ------------------------------------------------------- search criterion
\* The calendar as datetime counts it: a date is year, month and day, and its
\* ordinal is the number of days from 1 January of year 1, which is day 1.
IsLeap(y) == y % 4 = 0 /\ (y % 100 /= 0 \/ y % 400 = 0)
DaysInMonth(y, m) ==
    IF m = 2 THEN (IF IsLeap(y) THEN 29 ELSE 28)
    ELSE IF m \in {4, 6, 9, 11} THEN 30 ELSE 31

RECURSIVE DaysBeforeMonth(_, _)
DaysBeforeMonth(y, m) ==
    IF m = 1 THEN 0 ELSE DaysBeforeMonth(y, m - 1) + DaysInMonth(y, m - 1)

DaysBeforeYear(y) ==
    (y - 1) * 365 + (y - 1) \div 4 - (y - 1) \div 100 + (y - 1) \div 400

toordinal(date) ==
    DaysBeforeYear(date.year) + DaysBeforeMonth(date.year, date.month) + date.day

DatesOf(years) ==
    {date \in [year : years, month : 1..12, day : 1..31] :
        date.day <= DaysInMonth(date.year, date.month)}

\* The dates datetime.now() shows, and those a window reaches back to.
ClockYears == 2023..2024
ClockDates == DatesOf(ClockYears)
PastDates == DatesOf(2022..2024)

fromordinal(n) == CHOOSE date \in PastDates : toordinal(date) = n

\* strftime("%d-%b-%Y"): the day in two digits, the month's abbreviated
\* name, the year in four digits.
Digits == <<"0", "1", "2", "3", "4", "5", "6", "7", "8", "9">>
Digit(n) == Digits[n + 1]
MonthAbbr == <<"Jan", "Feb", "Mar", "Apr", "May", "Jun", "Jul", "Aug", "Sep",
               "Oct", "Nov", "Dec">>
strftime(date) ==
    <<Digit(date.day \div 10), Digit(date.day % 10), "-",
      MonthAbbr[date.month], "-",
      Digit(date.year \div 1000), Digit((date.year \div 100) % 10),
      Digit((date.year \div 10) % 10), Digit(date.year % 10)>>

\* A criterion built from the clock's date itself, without the window.
BuildCriteriaOfToday(self, now) == <<"UNSEEN", "SINCE">> \o strftime(now)

\* _build_search_criteria(self) when datetime.now() shows the date now.
_build_search_criteria(self, now) ==
    LET since_date == strftime(fromordinal(toordinal(now) - self.time_range_days))
    IN  <<"UNSEEN", "SINCE">> \o since_date

\* ------------------------------------------------- the helper functions
\* The helpers of the collector and of the cleaner, each called on its own
\* with an argument drawn from a bounded set.
TextInputs ==
    [fn : {"_normalize_whitespace", "clean_simple"}, arg : TextsUpTo(MaxTextLen)]

UrlInputs == [fn : {"_extract_urls"}, arg : UrlTexts]

MessageInputs == [fn : {"_extract_content"}, arg : Messages]

\* A collector's settings and the date of the clock.
ClockInputs ==
    [fn : {"_build_search_criteria"},
     arg : [self : [time_range_days : 0..MaxDays, mark_as_seen : BOOLEAN],
            now : ClockDates]]

\* The cleaner given a word, the empty string or None.
CleanInputs ==
    [fn : {"clean"}, arg : {<<>>, NoneText, <<"p">>}]
    \cup [fn : {"clean_simple"}, arg : {NoneText}]

PureInputs ==
    TextInputs \cup UrlInputs \cup MessageInputs \cup ClockInputs \cup CleanInputs

InitPure ==
    /\ pc = "pure"
    /\ IdleRun
    /\ collector = NoCollector
    /\ IdleSession
    /\ mailboxSize = 0
    /\ mailboxSubjects = {}
    /\ mailboxBodies = {}
    /\ input \in PureInputs
    /\ output = <<>>
    /\ EmptyMailbox

\* The value the next call is applied to: the argument, then the last result.
Operand == IF output = <<>> THEN input.arg ELSE output[Len(output)]

\* HTMLCleaner._normalize_whitespace(text), applied to its own result again.
NormalizeWhitespace ==
    /\ input.fn = "_normalize_whitespace"
    /\ Len(output) < 2
    /\ output' = Append(output, _normalize_whitespace(Operand))
    /\ UNCHANGED <<progVars, input>>

\* HTMLCleaner.clean_simple(text), applied to its own result again.
CleanSimple ==
    /\ input.fn = "clean_simple"
    /\ Len(output) < 2
    /\ output /= <<>> => ~IsRaise(output[1])
    /\ output' = Append(output, clean_simple(Operand))
    /\ UNCHANGED <<progVars, input>>

\* EmailCollector._extract_urls(content).
ExtractUrls ==
    /\ input.fn = "_extract_urls"
    /\ output = <<>>
    /\ \E urls \in _extract_urls(input.arg) : output' = <<urls>>
    /\ UNCHANGED <<progVars, input>>

\* EmailCollector._extract_content(msg).
ExtractContent ==
    /\ input.fn = "_extract_content"
    /\ output = <<>>
    /\ output' = <<_extract_content(input.arg)>>
    /\ UNCHANGED <<progVars, input>>

\* EmailCollector._build_search_criteria().
BuildSearchCriteria ==
    /\ input.fn = "_build_search_criteria"
    /\ output = <<>>
    /\ output' = <<_build_search_criteria(input.arg.self, input.arg.now)>>
    /\ UNCHANGED <<progVars, input>>

\* HTMLCleaner.clean(html_content).
Clean ==
    /\ input.fn = "clean"
    /\ output = <<>>
    /\ output' = <<CleanMarkup(input.arg)>>
    /\ UNCHANGED <<progVars, input>>

NextPure ==
    \/ NormalizeWhitespace
    \/ CleanSimple
    \/ Clean
    \/ ExtractUrls
    \/ ExtractContent
    \/ BuildSearchCriteria

SpecPure == InitPure /\ [][NextPure]_vars

\* ------------------------------------------------- collect calls over time
\* Successive collect calls on one account, while the server delivers and
\* expunges messages in between.
InitRuns ==
    /\ pc = "runs"
    /\ IdleRun
    /\ collector = NoCollector
    /\ IdleSession
    /\ mailboxSize = 0
    /\ mailboxSubjects = {}
    /\ mailboxBodies = {}
    /\ NoCall
    /\ EmptyMailbox

\* The server appends a new message to the mailbox.
Deliver ==
    /\ nextUid <= MaxUids
    /\ mbox' = Append(mbox, nextUid)
    /\ nextUid' = nextUid + 1
    /\ UNCHANGED <<coreVars, pureVars, assigned>>

\* A message is deleted and expunged: those behind it move up by one.
Expunge ==
    /\ \E i \in 1..Len(mbox) :
         mbox' = SubSeq(mbox, 1, i - 1) \o SubSeq(mbox, i + 1, Len(mbox))
    /\ UNCHANGED <<coreVars, pureVars, nextUid, assigned>>

\* One collect call: mail.search returns the sequence numbers of the
\* messages that match, and _process_email names each item after the
\* sequence number it was fetched by.
CollectRun ==
    /\ \E account \in Accounts, matching \in SUBSET (1..Len(mbox)) :
         /\ matching /= {}
         /\ assigned' = assigned \cup
                {[account |-> account, message |-> mbox[i],
                  source_id |-> SourceId(account, i)] : i \in matching}
    /\ UNCHANGED <<coreVars, pureVars, mbox, nextUid>>

NextRuns ==
    \/ Deliver
    \/ Expunge
    \/ CollectRun

SpecRuns == InitRuns /\ [][NextRuns]_vars

\* ------------------------------------------------------------------ claims
\* The message identifiers of the items collect has gathered.
ItemIds == {items[i].source_id[2] : i \in 1..Len(items)}

\* collect has ended: it returns items when no exception is in flight, and
\* raises the exception in flight otherwise.
CollectEnded == pc = "collect_exit"

\* C1: an exception raised by a stage of a domain never aborts the run: the
\* run never ends by an uncaught exception, and when it has ended every
\* domain after a domain whose exception reached the domain boundary was
\* entered.
C1_DomainFaultIsolated ==
    /\ runStatus /= "crashed"
    /\ pc = "done" =>
         \A f \in faulted : \A j \in (f + 1)..numDomains : j \in entered

\* C1 witness: the run has ended, a domain that is not the last one raised to
\* the domain boundary, and the last domain delivered its report.
C1_Witness ==
    /\ pc = "done"
    /\ runStatus = "completed"
    /\ \E f \in faulted : f < numDomains
    /\ numDomains \in entered
    /\ domainOutcome = "delivered"

\* C2: when the aggregate item list of a domain is empty after collection,
\* neither processor.process nor sender.send is called in that domain.
C2_EmptySkipsStages ==
    (collectDone /\ all_items = <<>>) => (processCalls = 0 /\ sendCalls = 0)

\* C2 witness: a domain with collectors collected nothing and was stopped.
C2_Witness ==
    /\ collectDone
    /\ numCollectors > 0
    /\ all_items = <<>>
    /\ domainOutcome = "no_items"

\* C3 (as claimed): when the connection cannot be opened, the login is
\* rejected or select reports a non-OK status, collect does not raise and
\* returns an empty list.
C3_SessionFailureReturnsEmpty ==
    (CollectEnded /\ sessionFailure \in {"connect", "login", "select"})
        => (exc = NoExc /\ items = <<>>)

\* C4 (as claimed): a failure while one identifier is processed (a protocol
\* error of its fetch, a malformed envelope, a decode error) skips only that
\* identifier: collect goes through every later identifier and returns.
C4_MessageFailureSkipsOnlyThatMessage ==
    (CollectEnded /\ msgFailed /= {} /\ excOrigin \in {"none", "parse"})
        => (exc = NoExc /\ k > Len(message_id_list))

\* C5 (as claimed): on every exit of collect on which a connection was
\* opened, logout was attempted.
C5_LogoutOnEveryExit ==
    (CollectEnded /\ connOpened) => logoutAttempted

\* C6 (as claimed): an error raised by close or logout is never the
\* exception collect ends with.
C6_CloseFailureNotPropagated ==
    CollectEnded => excOrigin \notin {"close", "logout"}

\* C7 (as claimed): with mark_as_seen disabled, every flag mutation collect
\* issues removes the Seen flag, and after a collect without failures no
\* message that became an item carries the Seen flag.
C7_UnreadPreserved ==
    ~collector.mark_as_seen =>
        /\ \A op \in flagOps : op[2] = "-FLAGS"
        /\ (CollectEnded /\ exc = NoExc /\ msgFailed = {}) => ItemIds \cap seen = {}

\* C8 (as claimed): with mark_as_seen enabled, collect has issued a flag
\* mutation adding Seen for every message that became an item.
C8_SeenExplicitlySet ==
    (CollectEnded /\ collector.mark_as_seen)
        => \A id \in ItemIds : <<id, "+FLAGS">> \in flagOps

\* C9: every item collect has gathered has content that is non-empty after
\* trimming whitespace.
C9_ItemsHaveContent ==
    \A i \in 1..Len(items) : Strip(items[i].content) /= <<>>

\* C9 witness: collect returns items after discarding a message whose
\* extracted body was empty or whitespace only.
C9_Witness ==
    /\ CollectEnded
    /\ exc = NoExc
    /\ discarded /= {}
    /\ items /= <<>>

\* The paths of the processing stage that yield no content.
NoContentOutcomes == {"no_config", "unknown_type", "raised", "empty"}

\* C10 (as claimed): when the processing stage yields no content, the
\* processor's explicit failure notice included, sender.send is not called.
C10_FailureNoticeNotSent ==
    procOutcome \in NoContentOutcomes \cup {"failure_notice"} => sendCalls = 0

\* C10 (amended): when the processing stage yields no content (no processor
\* configured, unknown processor type, the processor raised, empty text),
\* sender.send is not called, and send is only ever called with non-empty
\* content; the failure notice AIProcessor returns on an API error is
\* non-empty content.
C10_NoContentNoSend ==
    /\ procOutcome \in NoContentOutcomes => sendCalls = 0
    /\ sendCalls > 0 => Truthy(processed_content)
    /\ procOutcome = "failure_notice" => Truthy(processed_content)

\* C10 witness: the processor raised, the domain was stopped before delivery.
C10_Witness ==
    /\ procOutcome = "raised"
    /\ processCalls = 1
    /\ domainOutcome = "no_content"
    /\ sendCalls = 0


\* C11: when the completion call fails with an API, transport or rate-limit
\* error on a non-empty item list, process does not raise: it returns the
\* non-empty failure notice, and the orchestrator takes that text past its
\* content guard towards the sender like a report; the domain never ends as
\* "no content" and no exception of process reaches the orchestrator.
C11_FailureNoticeReturned ==
    completionError \in APIFailures =>
        /\ all_items /= <<>>
        /\ procOutcome = "failure_notice"
        /\ processed_content = FailureNotice
        /\ Truthy(processed_content)
        /\ excOrigin /= "process"
        /\ domainOutcome /= "no_content"
        /\ pc \in {"check_content", "send_report", "send", "domain_except",
                   "process_domain", "done"}
        /\ sendCalls > 0 => sendResult /= "none"

\* The failure notice of a failed completion call was handed to send.
C11_Witness ==
    /\ completionError = "APIConnectionError"
    /\ processed_content = FailureNotice
    /\ sendCalls = 1
    /\ sendResult = "True"
    /\ domainOutcome = "delivered"

\* C12: send never raises to its caller: a transport-level failure makes it
\* return false.
C12_SendNeverRaises == sendResult /= "raised"


\* The places of control inside a collect call, and the calls of collect
\* that can raise.
CollectPcs == {"connect", "login", "id", "select", "search", "fetch", "parse",
               "store", "close", "logout", "collect_exit"}
CollectOrigins == CollectPcs \ {"collect_exit"}

C14_UnknownTypeSkipped ==
    /\ runStatus /= "crashed"
    /\ c \in unknownAt => pc \notin CollectPcs
    /\ unknownAt /= {} /\ collectDone => c = numCollectors
    /\ procOutcome = "unknown_type" =>
           /\ processCalls = 0
           /\ sendCalls = 0
           /\ exc = NoExc
           /\ pc \in {"check_content", "process_domain", "done"}
           /\ domainOutcome \in {"none", "no_content"}
    /\ (senderCfg \notin {"none", "absent", "malformed"} /\ _create_sender(senderCfg) = None) =>
           /\ sendCalls = 0
           /\ sendResult = "none"
           /\ exc = NoExc
           /\ pc \in {"process_domain", "done"}
           /\ domainOutcome = "not_delivered"
    /\ pc = "done" /\ runStatus = "completed" => entered = 1..numDomains

\* A domain skipped its first collector for its unknown type, collected from
\* the second, found a sender of unknown type, and the run went on to the
\* next domain.
C14_Witness ==
    /\ unknownAt = {1}
    /\ numCollectors = 2
    /\ all_items /= <<>>
    /\ senderCfg = "other"
    /\ domainOutcome = "not_delivered"
    /\ pc = "process_domain"
    /\ d = 2


\* C15: whitespace normalization is idempotent: _normalize_whitespace, and
\* clean_simple (which also trims), applied twice give what one application
\* gives.
C15_NormalizeIdempotent ==
    (input.fn \in {"_normalize_whitespace", "clean_simple"} /\ Len(output) = 2) =>
        output[2] = output[1]

\* A text with a run of three newlines and a run of spaces was normalized
\* twice, and the first pass changed it.
C15_Witness ==
    /\ input.fn = "_normalize_whitespace"
    /\ input.arg = <<Newline, Newline, Newline, Space, Space>>
    /\ Len(output) = 2
    /\ output[1] = <<Newline, Newline, Space>>


\* Text t holds string u as a run of consecutive characters.
OccursIn(u, t) ==
    \E start \in 1..Len(t) : SubSeq(t, start, start + Len(u) - 1) = u

\* String u is a link: a scheme, a host character, no white space.
IsLink(u) ==
    /\ Len(u) >= 2
    /\ u[1] = Scheme
    /\ HostStart(u[2])
    /\ \A i \in 1..Len(u) : u[i] \notin Whitespace

\* C16: the list _extract_urls returns has at most 5 entries, holds no entry
\* twice, and every entry is a link that occurs in the text.
C16_UrlsCappedDistinctFromText ==
    (input.fn = "_extract_urls" /\ output /= <<>>) =>
        LET urls == output[1]
        IN  /\ Len(urls) <= 5
            /\ \A i, j \in 1..Len(urls) : urls[i] = urls[j] => i = j
            /\ \A i \in 1..Len(urls) : IsLink(urls[i]) /\ OccursIn(urls[i], input.arg)

\* Six different links, some of them repeated: five were returned.
C16_Witness ==
    /\ input.fn = "_extract_urls"
    /\ Cardinality(Range(findall(input.arg))) = 6
    /\ Len(findall(input.arg)) > 6
    /\ output /= <<>>
    /\ Len(output[1]) = 5


\* The positions of the parts of the given type that have a payload.
WithPayload(parts, type) ==
    {i \in 1..Len(parts) : parts[i].type = type /\ parts[i].payload /= <<>>}
First(positions) == CHOOSE i \in positions : \A j \in positions : i <= j

\* C17 (as claimed): a multi-part message with a plain-text part and a markup
\* part, both with payloads, in either order, gives the plain-text part's
\* body; the markup part is used only when no plain-text part has a payload.
C17_PlainPartPreferred ==
    (input.fn = "_extract_content" /\ output /= <<>> /\ input.arg.multipart) =>
        LET parts == input.arg.parts
            plain == WithPayload(parts, "text/plain")
            html == WithPayload(parts, "text/html")
        IN  /\ (plain /= {} /\ html /= {}) => output[1] = <<"p">>
            /\ output[1] = <<"h">> => plain = {}

\* C17: a multi-part message gives the body of the first part, in part
\* order, that is plain text or markup and has a payload: the plain-text part
\* when it comes before every markup part with a payload or there is none,
\* the markup part when it comes first or no plain-text part has a payload,
\* and nothing when neither exists.
C17_FirstTextPartWins ==
    (input.fn = "_extract_content" /\ output /= <<>> /\ input.arg.multipart) =>
        LET parts == input.arg.parts
            plain == WithPayload(parts, "text/plain")
            html == WithPayload(parts, "text/html")
        IN  /\ (plain /= {} /\ (html = {} \/ First(plain) < First(html)))
                   => output[1] = <<"p">>
            /\ (html /= {} /\ (plain = {} \/ First(html) < First(plain)))
                   => output[1] = <<"h">>
            /\ (plain = {} /\ html = {}) => output[1] = <<>>

\* The markup part comes before the plain-text part, both have payloads, and
\* the body was taken from the markup part.
C17_Witness ==
    /\ input.fn = "_extract_content"
    /\ input.arg.multipart
    /\ input.arg.parts = <<HtmlPart(<<"h">>), PlainPart(<<"p">>)>>
    /\ output = << <<"h">> >>


\* C18: every item collect returns has a non-empty title.
C18_TitleNeverEmpty ==
    \A i \in 1..Len(items) : items[i].title /= <<>>


\* C19: the source_id of the item made for a message is stable across runs:
\* two collect calls on one account that both process the message give it
\* the same source_id, whatever was deleted or delivered in between.
C19_SourceIdStable ==
    \A a, b \in assigned :
        (a.account = b.account /\ a.message = b.message) => a.source_id = b.source_id


\* The day before a date, by the calendar.
PrevDay(date) ==
    IF date.day > 1 THEN [date EXCEPT !.day = date.day - 1]
    ELSE IF date.month > 1
    THEN [year |-> date.year, month |-> date.month - 1,
          day |-> DaysInMonth(date.year, date.month - 1)]
    ELSE [year |-> date.year - 1, month |-> 12, day |-> 31]

RECURSIVE DaysBack(_, _)
DaysBack(date, n) == IF n = 0 THEN date ELSE DaysBack(PrevDay(date), n - 1)

\* The date a day-month-year text reads as.
ValueOf(ch) == CHOOSE n \in 0..9 : Digits[n + 1] = ch
ReadDate(text) ==
    [year |-> ValueOf(text[6]) * 1000 + ValueOf(text[7]) * 100
              + ValueOf(text[8]) * 10 + ValueOf(text[9]),
     month |-> CHOOSE m \in 1..12 : MonthAbbr[m] = text[4],
     day |-> ValueOf(text[1]) * 10 + ValueOf(text[2])]

\* C20: the criterion asks for UNSEEN messages SINCE the date that lies
\* time_range_days days before the clock's date, written as two-digit day,
\* month abbreviation and four-digit year; the clock and time_range_days
\* alone determine it.
C20_CriterionSinceWindowStart ==
    (input.fn = "_build_search_criteria" /\ output /= <<>>) =>
        LET criterion == output[1]
            since == SubSeq(criterion, 3, Len(criterion))
        IN  /\ Len(criterion) = 11
            /\ criterion[1] = "UNSEEN"
            /\ criterion[2] = "SINCE"
            /\ since[3] = "-" /\ since[5] = "-"
            /\ since[4] \in Range(MonthAbbr)
            /\ \A i \in {1, 2, 6, 7, 8, 9} : since[i] \in Range(Digits)
            /\ ReadDate(since) = DaysBack(input.arg.now, input.arg.self.time_range_days)

\* On 10 June 2024 with a window of one day the criterion names 09-Jun-2024.
C20_Witness ==
    /\ input.fn = "_build_search_criteria"
    /\ input.arg.now = [year |-> 2024, month |-> 6, day |-> 10]
    /\ input.arg.self.time_range_days = 1
    /\ output = << <<"UNSEEN", "SINCE", "0", "9", "-", "Jun", "-", "2", "0", "2", "4">> >>


\* C21: given the empty string or None, both operations of the cleaner, clean
\* and clean_simple, return the empty string and do not raise.
C21_EmptyOrAbsentGivesEmpty ==
    (/\ input.fn \in {"clean", "clean_simple"}
     /\ input.arg \in {<<>>, NoneText}
     /\ output /= <<>>) => output[1] = <<>>


\* C22: when the configuration file does not exist, run ends the process
\* with a non-zero exit status, and before that no domain was entered, no
\* collector, processor or sender was created or called, and no connection
\* was opened.
C22_MissingConfigExitsFirst ==
    runStatus = "exit1" =>
        /\ pc = "done"
        /\ ExitStatus(runStatus) /= 0
        /\ entered = {}
        /\ collector = NoCollector
        /\ ~connOpened
        /\ procOutcome = "none"
        /\ senderCfg = "none"
        /\ processCalls = 0
        /\ sendCalls = 0
        /\ unknownAt = {}

\* The run ended at the missing configuration file.
C22_Witness ==
    /\ runStatus = "exit1"
    /\ pc = "done"
    /\ ExitStatus(runStatus) = 1

\* The positions of the command history, and those of one command.
Issued == 1..Len(commands)
IssuedOf(cmds) == {i \in Issued : commands[i].cmd \in cmds}
MailboxCommands == {"search", "fetch", "store"}

\* C23: within one collect call login precedes select, search is issued only
\* after a select that returned OK, every fetch and every flag mutation is for
\* an identifier returned by that search and comes after it, and no fetch,
\* search or flag mutation follows close, logout or a select that did not
\* return OK.
C23_CommandOrder ==
    /\ \A i \in IssuedOf({"select"}) :
         \E j \in 1..(i - 1) : commands[j].cmd = "login"
    /\ \A i \in IssuedOf({"search"}) :
         \E j \in 1..(i - 1) :
            commands[j].cmd = "select" /\ commands[j].status = "OK"
    /\ \A i \in IssuedOf({"fetch", "store"}) :
         \E j \in 1..(i - 1) :
            /\ commands[j].cmd = "search"
            /\ commands[j].status = "OK"
            /\ commands[i].arg \in Range(commands[j].arg)
    /\ \A i \in IssuedOf({"close", "logout", "select"}) :
         (commands[i].cmd = "select" => commands[i].status /= "OK")
            => \A j \in (i + 1)..Len(commands) :
                  commands[j].cmd \notin MailboxCommands

\* A session that searched, fetched, set a flag, closed and logged out.
C23_Witness ==
    /\ IssuedOf({"fetch"}) /= {}
    /\ IssuedOf({"store"}) /= {}
    /\ IssuedOf({"close"}) /= {}
    /\ IssuedOf({"logout"}) /= {}

\* The places of the thread of control in the summarization stage, in the
\* delivery stage, and in any stage of a domain.
ProcessPcs == {"process_items", "process", "check_content"}
SendPcs == {"send_report", "send"}
StagePcs == {"create_collector", "check_items"} \cup CollectPcs \cup ProcessPcs
               \cup SendPcs

\* Within the domain under way: the stages are in order and called once.
StagesInOrder ==
    /\ processCalls \in {0, 1}
    /\ sendCalls \in {0, 1}
    /\ (pc \in ProcessPcs \cup SendPcs \/ processCalls = 1)
          => collectDone /\ c = numCollectors
    /\ (pc \in SendPcs \/ sendCalls = 1)
          => processCalls = 1 /\ Truthy(processed_content)
    /\ pc \in StagePcs => domainOutcome = "none" /\ entered = 1..d

\* A step that starts a domain, and a step that moves the loop of run on.
DomainsInTurn ==
    /\ entered' /= entered
          => /\ pc = "process_domain"
             /\ entered = 1..(d - 1)
             /\ entered' = 1..d
             /\ d > 1 => domainOutcome /= "none"
    /\ (d' /= d /\ pc /= "run")
          => /\ pc \in StagePcs \cup {"domain_except"}
             /\ d' = d + 1
             /\ domainOutcome = "none"
             /\ domainOutcome' /= "none"
             /\ pc' = "process_domain"

\* C24: within one domain the stages run in the order collection,
\* summarization, delivery: the processor is called at most once and only
\* after every collector has finished, the sender at most once and only
\* after the processor returned non-empty content, and no stage of a later
\* domain starts before the processing of the domain before it has ended.
C24_StagesInOrder == []StagesInOrder /\ [][DomainsInTurn]_vars

\* The second domain delivered a report summarized from the items of more
\* than one collector.
C24_Witness ==
    /\ sendCalls = 1
    /\ processCalls = 1
    /\ numCollectors > 1
    /\ Cardinality(entered) > 1

\* The configuration was loaded, and run has returned normally after one call
\* of _process_domain per configured domain, in the order of the configuration.
ConfigLoaded == pc /= "run" /\ runStatus /= "exit1"
RunCompleted ==
    /\ pc = "done"
    /\ runStatus = (IF numDomains = 0 THEN "no_domains" ELSE "completed")
    /\ started = [i \in 1..numDomains |-> i]

\* C25: when every call of a collaborator eventually returns or raises, run
\* with a configuration that loads eventually reaches its completed state,
\* having started the processing of every configured domain exactly once, in
\* the order of the configuration.
C25_RunCompletes == ConfigLoaded ~> RunCompleted

\* A completed run of more than one domain, one of which ended at the domain
\* boundary's except clause.
C25_Witness ==
    /\ RunCompleted
    /\ Len(started) > 1
    /\ faulted /= {}

\* C26: when the sender of a domain is configured with enabled = false,
\* sender.send is not called in that domain.
C26_DisabledSenderNotInvoked == ~senderEnabled => sendCalls = 0

\* The identifiers whose fetch returned during this collect call.
Fetched == {commands[i].arg : i \in {j \in IssuedOf({"fetch"}) : commands[j].status = "OK"}}

\* C27: with mark_as_seen disabled, a collect call changes the read state of
\* no message: every message whose body was fetched, the ones discarded for
\* empty content and the ones whose processing failed included, is unread on
\* the server when the session has closed (the search returns unread
\* messages only).
C27_ReadStateUntouched ==
    (CollectEnded /\ ~collector.mark_as_seen) => Fetched \cap seen = {}

\* The place of an identifier in the search result.
PlaceOf(id) == CHOOSE p \in 1..Len(message_id_list) : message_id_list[p] = id

\* C28: the list one collect call gathers has at most one item per identifier
\* the search returned, in the order of the search result, and the source_ids
\* of its items are pairwise distinct.
C28_ItemsFollowSearchResult ==
    /\ \A i \in 1..Len(items) :
         items[i].source_id[2] \in Range(message_id_list)
    /\ \A i, j \in 1..Len(items) :
         i < j => /\ items[i].source_id /= items[j].source_id
                  /\ PlaceOf(items[i].source_id[2]) < PlaceOf(items[j].source_id[2])

\* A collect call that returned more than one item.
C28_Witness == CollectEnded /\ exc = NoExc /\ Len(items) > 1

============================================================================
